---- MODULE Spec2Model ----
(***************************************************************************)
(* A model of ext/mongory_ext/mongory_ext.c, the Ruby bridge of the        *)
(* mongory matching engine: one matcher wrapper (rb_mongory_matcher_t),    *)
(* its memory pools, its two key caches and its mark list, the host heap   *)
(* the bridge reads and allocates in, and one action per Ruby method.      *)
(*                                                                         *)
(* Host handles (VALUE) are strings: the special constants, the objects    *)
(* the caller owns (UserHeap) and the objects allocated during the run     *)
(* ("f1", "f2", ...).  A native value (mongory_value) is a record          *)
(* [type, data, origin]; a C NULL pointer to one is NullPtr.               *)
(***************************************************************************)
EXTENDS Integers, Sequences, FiniteSets, TLC

VARIABLES heap, nfresh, pools, npools, wrapper, last, hist

vars == <<heap, nfresh, pools, npools, wrapper, last, hist>>

(***************************************************************************)
(* Bounds of the model.                                                    *)
(***************************************************************************)
\* host objects the bridge may allocate in one run
MaxFresh == 4
\* pools created after the two of the constructor (trace pools)
MaxPools == 1
\* allocations a pool counts before the model stops calling into it
MaxUsed == 4
\* pools created after the constructor in a run that allocates no host
\* object, the last of them by enable_trace
MaxTracePools == 2

(***************************************************************************)
(* The host: special constants and the caller's objects.                   *)
(***************************************************************************)
Qfalse == "Qfalse"
Qnil == "Qnil"
Qtrue == "Qtrue"
Qundef == "Qundef"

Obj(t, v) == [type |-> t, val |-> v]
Str(b) == Obj("T_STRING", [bytes |-> b, nul |-> FALSE])
Hash(kv) == Obj("T_HASH", kv)

\* What the caller holds before the first call.  A T_OBJECT carries what the
\* data converter hook makes of it: a fresh hash with one fresh string key
\* (conv = "hash"), or the object itself (conv = "same").
UserHeap ==
     ("int1"   :> Obj("T_FIXNUM", 1))
  @@ ("int2"   :> Obj("T_FIXNUM", 2))
  @@ ("big"    :> Obj("T_BIGNUM", [fits |-> FALSE, n |-> 0]))
  @@ ("bigll"  :> Obj("T_BIGNUM", [fits |-> TRUE, n |-> 3]))
  @@ ("flt"    :> Obj("T_FLOAT", 0))
  @@ ("sA"     :> Str("a"))
  @@ ("sA2"    :> Str("a"))
  @@ ("sNul"   :> Obj("T_STRING", [bytes |-> "n", nul |-> TRUE]))
  @@ ("symA"   :> Obj("T_SYMBOL", "a"))
  @@ ("re"     :> Obj("T_REGEXP", "a"))
  @@ ("kRegex" :> Str("$regex"))
  @@ ("kCust"  :> Str("$cust"))
  @@ ("objH"   :> Obj("T_OBJECT", [conv |-> "hash", key |-> "b", value |-> "int1"]))
  @@ ("objU"   :> Obj("T_OBJECT", [conv |-> "same"]))
  @@ ("kls"    :> Obj("T_CLASS", 0))
  @@ ("ctx1"   :> Obj("T_OBJECT", [conv |-> "same"]))
  @@ ("cEq"    :> Hash(<< <<"sA", "int1">> >>))
  @@ ("cSym"   :> Hash(<< <<"symA", "int1">> >>))
  @@ ("hRe"    :> Hash(<< <<"kRegex", "sA">> >>))
  @@ ("cRe"    :> Hash(<< <<"sA", "hRe">> >>))
  @@ ("hCus"   :> Hash(<< <<"kCust", "int1">> >>))
  @@ ("cCus"   :> Hash(<< <<"sA", "hCus">> >>))
  @@ ("cExo"   :> Hash(<< <<"sA", "objH">> >>))
  @@ ("dStr"   :> Hash(<< <<"sA2", "int1">> >>))
  @@ ("dSym"   :> Hash(<< <<"symA", "int1">> >>))
  @@ ("dEmpty" :> Hash(<< >>))
  @@ ("dBig"   :> Hash(<< <<"sA2", "big">> >>))
  @@ ("dS"     :> Hash(<< <<"symA", "sA2">> >>))
  @@ ("dArr"   :> Obj("T_ARRAY", <<"int1", "dStr", "int2">>))
  @@ ("s0"     :> Str("0"))
  @@ ("cIdx"   :> Hash(<< <<"s0", "int1">> >>))
  @@ ("cBig"   :> Hash(<< <<"sA", "big">> >>))
  @@ ("sB"     :> Str("b"))
  @@ ("sC"     :> Str("c"))
  @@ ("dWide"  :> Hash(<< <<"sB", "int2">>, <<"sA2", "dStr">>, <<"sC", "int1">> >>))

\* The values the model passes to new, and to match? and trace.
Conditions == {"cEq", "cSym", "cRe", "cCus", "cExo", "cIdx", "cBig", "int1"}
\* the context keyword (Qundef: none passed), and whether the condition
\* converter answers with a copy
NewArgs == {<<Qundef, FALSE>>, <<Qnil, TRUE>>, <<Qfalse, FALSE>>, <<"ctx1", TRUE>>}
Datas == {"dStr", "dSym", "dEmpty", "dBig", "dS", "dWide", "dArr", "objU", "objH",
          "int1"}
TraceDatas == {"dStr", "dBig", "int1"}
\* The host values that rb_to_mongory_value_primitive has a case for.
Primitives == {Qnil, Qtrue, Qfalse, "int1", "big", "bigll", "flt", "sA", "sA2",
               "sNul", "symA", "re"}

TYPE(hp, v) ==
  CASE v = Qnil -> "T_NIL"
    [] v = Qtrue -> "T_TRUE"
    [] v = Qfalse -> "T_FALSE"
    [] v = Qundef -> "T_UNDEF"
    [] OTHER -> hp[v].type

\* RTEST and the C truth of a VALUE: Qfalse is (VALUE)0, Qnil is not.
RTEST(v) == v # Qfalse /\ v # Qnil
CTrue(v) == v # Qfalse

(***************************************************************************)
(* Native values.                                                          *)
(***************************************************************************)
NullPtr == [type |-> "NULLPTR", data |-> 0, origin |-> Qfalse]
IsNull(mv) == mv.type = "NULLPTR"
\* mongory_value_wrap_*: a value of the type, its origin not yet set
MgValue(t, d) == [type |-> t, data |-> d, origin |-> Qfalse]

\* The outcome of a step that may raise a host exception.
Ok(w, mv) == [w |-> w, v |-> mv, ex |-> ""]
Raise(w, e) == [w |-> w, v |-> NullPtr, ex |-> e]

\* pool->alloc: one more allocation counted in the pool
Alloc(w, p, n) == [w EXCEPT !.pools[p].used = @ + n]

\* steps: the calls into the core that a handler makes, in order
Step(w, name, pool) == [w EXCEPT !.steps = Append(@, [do |-> name, pool |-> pool])]

\* hostcalls: the calls into the host that the constructor makes before the
\* matcher object exists.  stack: the handles the C frames hold as arguments
\* and locals at the call; held: the handles the wrapper and the mark list
\* hold at that point.
HostCall(w, at, stack, held) ==
  [w EXCEPT !.hostcalls = Append(@, [at |-> at, stack |-> stack, held |-> held])]

\* A host allocation: a new object under the next unused handle.
FreshHandle(w) == "f" \o ToString(w.nfresh + 1)
HostNew(w, o) ==
  [w EXCEPT !.heap = (FreshHandle(w) :> o) @@ @, !.nfresh = @ + 1]

(***************************************************************************)
(* The host functions the bridge calls.                                    *)
(***************************************************************************)
\* eql? of two hash keys: the same object, or two strings of the same bytes
HostEql(hp, a, b) ==
  \/ a = b
  \/ /\ TYPE(hp, a) = "T_STRING"
     /\ TYPE(hp, b) = "T_STRING"
     /\ hp[a].val.bytes = hp[b].val.bytes

RECURSIVE LookupFrom(_, _, _, _, _)
LookupFrom(hp, kv, i, key, def) ==
  IF i > Len(kv) THEN def
  ELSE IF HostEql(hp, kv[i][1], key) THEN kv[i][2]
  ELSE LookupFrom(hp, kv, i + 1, key, def)

rb_hash_lookup2(hp, rb_hash, key, def) == LookupFrom(hp, hp[rb_hash].val, 1, key, def)

\* StringValueCStr: raises on a string with a NUL byte, and on a non-string
StringValueCStr(hp, v) ==
  IF TYPE(hp, v) # "T_STRING" THEN [ex |-> "TypeError", s |-> ""]
  ELSE IF hp[v].val.nul THEN [ex |-> "ArgumentError", s |-> ""]
  ELSE [ex |-> "", s |-> hp[v].val.bytes]

\* Mongory.data_converter.convert(v): the hook's answer for an object the
\* bridge has no case for.
DataConvert(w, v) ==
  LET o == w.heap[v] IN
  IF o.type = "T_OBJECT" /\ o.val.conv = "hash"
  THEN LET k  == FreshHandle(w)
           w1 == HostNew(w, Str(o.val.key))
           h  == FreshHandle(w1)
           w2 == HostNew(w1, Hash(<< <<k, o.val.value>> >>))
       IN [w |-> [w2 EXCEPT !.hooked = @ \cup {h}], h |-> h]
  ELSE [w |-> [w EXCEPT !.hooked = @ \cup {v}], h |-> v]

\* The symbol of a name: symbols are unique per name in the host.
SymbolsOf(hp, name) ==
  {h \in DOMAIN hp : hp[h].type = "T_SYMBOL" /\ hp[h].val = name}

char_key_to_symbol(w, key) ==
  IF SymbolsOf(w.heap, key) # {}
  THEN [w |-> w, h |-> CHOOSE h \in SymbolsOf(w.heap, key) : TRUE]
  ELSE [w |-> HostNew(w, Obj("T_SYMBOL", key)), h |-> FreshHandle(w)]

(***************************************************************************)
(* Conversion of host values to native values.                             *)
(***************************************************************************)
MapGet(m, k) == IF k \in DOMAIN m THEN m[k] ELSE NullPtr
MapSet(m, k, mv) == (k :> mv) @@ m

rb_to_mongory_value_primitive(hp, v) ==
  LET t == TYPE(hp, v) IN
  CASE t = "T_NIL"    -> [ex |-> "", v |-> MgValue("NULL", 0)]
    [] t = "T_TRUE"   -> [ex |-> "", v |-> MgValue("BOOL", TRUE)]
    [] t = "T_FALSE"  -> [ex |-> "", v |-> MgValue("BOOL", FALSE)]
    [] t = "T_FIXNUM" -> [ex |-> "", v |-> MgValue("INT", hp[v].val)]
    [] t = "T_BIGNUM" -> IF hp[v].val.fits
                         THEN [ex |-> "", v |-> MgValue("INT", hp[v].val.n)]
                         ELSE [ex |-> "RangeError", v |-> NullPtr]
    [] t = "T_FLOAT"  -> [ex |-> "", v |-> MgValue("DOUBLE", hp[v].val)]
    [] t = "T_STRING" -> LET c == StringValueCStr(hp, v) IN
                         IF c.ex # "" THEN [ex |-> c.ex, v |-> NullPtr]
                         ELSE [ex |-> "", v |-> MgValue("STRING", c.s)]
    [] t = "T_SYMBOL" -> [ex |-> "", v |-> MgValue("STRING", hp[v].val)]
    [] t = "T_REGEXP" -> [ex |-> "", v |-> MgValue("REGEX", v)]
    [] OTHER          -> [ex |-> "", v |-> NullPtr]

\* A wrap that converts every value of the hash when the view is made.
TableWrapEager(w, pool, rb_hash) ==
  Ok(Alloc([w EXCEPT !.convs = @ \o [i \in 1..Len(w.heap[rb_hash].val) |->
                                         w.heap[rb_hash].val[i][2]]],
           pool, 2 + Len(w.heap[rb_hash].val)),
     [MgValue("TABLE", [lazy |-> TRUE, pool |-> pool, rb |-> rb_hash,
                        count |-> Len(w.heap[rb_hash].val),
                        owner |-> w.pools[pool].owner])
        EXCEPT !.origin = rb_hash])

rb_mongory_table_wrap(w, pool, rb_hash) ==
  LET table == [lazy |-> TRUE, pool |-> pool, rb |-> rb_hash,
                count |-> Len(w.heap[rb_hash].val), owner |-> w.pools[pool].owner]
  IN Ok(Alloc(w, pool, 2), [MgValue("TABLE", table) EXCEPT !.origin = rb_hash])

rb_mongory_array_wrap(w, pool, rb_array) ==
  LET array == [lazy |-> TRUE, pool |-> pool, rb |-> rb_array,
                count |-> Len(w.heap[rb_array].val), owner |-> w.pools[pool].owner]
  IN Ok(Alloc(w, pool, 2), [MgValue("ARRAY", array) EXCEPT !.origin = rb_array])

\* The shallow conversion without line 366: the origin of a primitive is
\* not set.
ShallowOriginUnset(w, pool, v) ==
  IF rb_to_mongory_value_primitive(w.heap, v).ex # ""
  THEN Raise(w, rb_to_mongory_value_primitive(w.heap, v).ex)
  ELSE Ok(Alloc(w, pool, 1), rb_to_mongory_value_primitive(w.heap, v).v)

RECURSIVE rb_to_mongory_value_shallow_rec(_, _, _, _)
rb_to_mongory_value_shallow_rec(w, pool, v, converted) ==
  LET p == rb_to_mongory_value_primitive(w.heap, v)
      t == TYPE(w.heap, v)
  IN IF p.ex # "" THEN Raise(w, p.ex)
     ELSE IF ~IsNull(p.v) THEN Ok(Alloc(w, pool, 1), [p.v EXCEPT !.origin = v])
     ELSE IF t = "T_ARRAY" THEN rb_mongory_array_wrap(w, pool, v)
     ELSE IF t = "T_HASH" THEN rb_mongory_table_wrap(w, pool, v)
     ELSE IF converted
          THEN Ok(Alloc(w, pool, 1), [MgValue("UNSUPPORTED", v) EXCEPT !.origin = v])
          ELSE LET c == DataConvert(w, v)
               IN rb_to_mongory_value_shallow_rec(c.w, pool, c.h, TRUE)

\* convs: the host values handed to the shallow conversion during the call
rb_to_mongory_value_shallow(w, pool, v) ==
  rb_to_mongory_value_shallow_rec([w EXCEPT !.convs = Append(@, v)], pool, v, FALSE)

RECURSIVE rb_to_mongory_value_deep_rec(_, _, _, _)
RECURSIVE DeepPairs(_, _, _, _, _)
RECURSIVE DeepElems(_, _, _, _, _)

\* One call of the rb_hash_foreach callback of a deep conversion.
hash_foreach_deep_convert_cb(w, pool, table, key, val) ==
  LET sym == TYPE(w.heap, key) = "T_SYMBOL"
      c   == IF sym THEN [ex |-> "", s |-> w.heap[key].val]
             ELSE StringValueCStr(w.heap, key)
  IN IF c.ex # "" THEN [w |-> w, t |-> table, ex |-> c.ex]
     ELSE LET store == [MgValue("UNSUPPORTED", Qfalse) EXCEPT !.origin = key]
              w1 == Alloc(w, pool, 1)
              w2 == IF sym
                    THEN [w1 EXCEPT !.wr.symbol_map = MapSet(@, c.s, store)]
                    ELSE [w1 EXCEPT !.wr.string_map = MapSet(@, c.s, store)]
              r  == rb_to_mongory_value_deep_rec(w2, pool, val, FALSE)
          IN IF r.ex # "" THEN [w |-> r.w, t |-> table, ex |-> r.ex]
             ELSE [w |-> r.w,
                   t |-> [table EXCEPT
                            !.keys = IF c.s \in DOMAIN table.entries
                                     THEN @ ELSE Append(@, c.s),
                            !.entries = MapSet(@, c.s, r.v)],
                   ex |-> ""]

\* rb_hash_foreach over the pairs of the hash, in insertion order
DeepPairs(w, pool, kv, i, table) ==
  IF i > Len(kv) THEN [w |-> w, t |-> table, ex |-> ""]
  ELSE LET r == hash_foreach_deep_convert_cb(w, pool, table, kv[i][1], kv[i][2])
       IN IF r.ex # "" THEN r ELSE DeepPairs(r.w, pool, kv, i + 1, r.t)

\* the loop over RARRAY_LEN of a deep conversion
DeepElems(w, pool, elems, i, items) ==
  IF i > Len(elems) THEN [w |-> w, t |-> items, ex |-> ""]
  ELSE LET r == rb_to_mongory_value_deep_rec(w, pool, elems[i], FALSE)
       IN IF r.ex # "" THEN [w |-> r.w, t |-> items, ex |-> r.ex]
          ELSE DeepElems(r.w, pool, elems, i + 1, Append(items, r.v))

rb_to_mongory_value_deep_rec(w, pool, v, converted) ==
  LET p == rb_to_mongory_value_primitive(w.heap, v)
      t == TYPE(w.heap, v)
  IN IF p.ex # "" THEN Raise(w, p.ex)
     ELSE IF ~IsNull(p.v) THEN Ok(Alloc(w, pool, 1), [p.v EXCEPT !.origin = v])
     ELSE IF t = "T_ARRAY"
          THEN LET r == DeepElems(Alloc(w, pool, 1), pool, w.heap[v].val, 1, << >>)
               IN IF r.ex # "" THEN Raise(r.w, r.ex)
                  ELSE Ok(Alloc(r.w, pool, 1),
                          [MgValue("ARRAY", [lazy |-> FALSE, items |-> r.t])
                             EXCEPT !.origin = v])
     ELSE IF t = "T_HASH"
          THEN LET r == DeepPairs(Alloc(w, pool, 1), pool, w.heap[v].val, 1,
                                  [lazy |-> FALSE, keys |-> << >>, entries |-> << >>])
               IN IF r.ex # "" THEN Raise(r.w, r.ex)
                  ELSE Ok(Alloc(r.w, pool, 1),
                          [MgValue("TABLE", r.t) EXCEPT !.origin = v])
     ELSE IF converted
          THEN Ok(Alloc(w, pool, 1), [MgValue("UNSUPPORTED", v) EXCEPT !.origin = v])
          ELSE LET c == DataConvert(w, v)
                   r == rb_to_mongory_value_deep_rec(c.w, pool, c.h, TRUE)
               IN IF r.ex # "" THEN r ELSE Ok(r.w, [r.v EXCEPT !.origin = v])

rb_to_mongory_value_deep(w, pool, v) ==
  rb_to_mongory_value_deep_rec(w, pool, v, FALSE)

\* the recover function handed to the core
mongory_value_to_ruby(mv) == IF IsNull(mv) THEN Qfalse ELSE mv.origin

(***************************************************************************)
(* The key caches.                                                         *)
(***************************************************************************)
StoreOf(h) == [MgValue("UNSUPPORTED", Qfalse) EXCEPT !.origin = h]
\* mark_list->push: the list holds a pointer to the value; the mark callback
\* reads the origin of what it points to.
MarkRef(mv) == [type |-> mv.type, origin |-> mv.origin]

cache_fetch_string(w, owner, key) ==
  IF owner = "null"
  THEN [w |-> HostNew(w, Str(key)), h |-> FreshHandle(w)]
  ELSE LET mv == MapGet(w.wr.string_map, key) IN
       IF ~IsNull(mv) /\ CTrue(mv.origin) THEN [w |-> w, h |-> mv.origin]
       ELSE LET s  == FreshHandle(w)
                w1 == Alloc(HostNew(w, Str(key)), w.wr.pool, 1)
            IN [w |-> [w1 EXCEPT !.wr.string_map = MapSet(@, key, StoreOf(s)),
                                 !.wr.mark_list = Append(@, MarkRef(StoreOf(s)))],
                h |-> s]

\* The fetch without the test of line 563: every call interns and pushes.
CacheFetchSymbolNoHit(w, owner, key) ==
  IF owner = "null" THEN char_key_to_symbol(w, key)
  ELSE [w |-> [Alloc(char_key_to_symbol(w, key).w, w.wr.pool, 1) EXCEPT
                 !.wr.symbol_map = MapSet(@, key, StoreOf(char_key_to_symbol(w, key).h)),
                 !.wr.mark_list =
                    Append(@, MarkRef(StoreOf(char_key_to_symbol(w, key).h)))],
        h |-> char_key_to_symbol(w, key).h]

cache_fetch_symbol(w, owner, key) ==
  IF owner = "null" THEN char_key_to_symbol(w, key)
  ELSE LET mv == MapGet(w.wr.symbol_map, key) IN
       IF ~IsNull(mv) /\ CTrue(mv.origin) THEN [w |-> w, h |-> mv.origin]
       ELSE LET c  == char_key_to_symbol(w, key)
                w1 == Alloc(c.w, w.wr.pool, 1)
            IN [w |-> [w1 EXCEPT !.wr.symbol_map = MapSet(@, key, StoreOf(c.h)),
                                 !.wr.mark_list = Append(@, MarkRef(StoreOf(c.h)))],
                h |-> c.h]

(***************************************************************************)
(* The lazy views.                                                         *)
(***************************************************************************)
\* The fallback with a converted nil in place of line 485.
TableGetSymbolNilValue(ky, table) ==
  IF rb_hash_lookup2(ky.w.heap, table.rb, ky.h, Qundef) = Qundef
  THEN rb_to_mongory_value_shallow(ky.w, table.pool, Qnil)
  ELSE rb_to_mongory_value_shallow(ky.w, table.pool,
                                   rb_hash_lookup2(ky.w.heap, table.rb, ky.h, Qundef))

\* lines 479-487: the fallback to the symbol key
TableGetSymbol(ky, table) ==
  IF rb_hash_lookup2(ky.w.heap, table.rb, ky.h, Qundef) = Qundef
  THEN Ok(ky.w, NullPtr)
  ELSE rb_to_mongory_value_shallow(ky.w, table.pool,
                                   rb_hash_lookup2(ky.w.heap, table.rb, ky.h, Qundef))

\* The lookup without lines 478-482: a miss with the string key is final.
TableGetStringOnly(ks, table, key) ==
  IF rb_hash_lookup2(ks.w.heap, table.rb, ks.h, Qundef) = Qundef
  THEN Ok(ks.w, NullPtr)
  ELSE rb_to_mongory_value_shallow(ks.w, table.pool,
                                   rb_hash_lookup2(ks.w.heap, table.rb, ks.h, Qundef))

\* lines 476-487: the lookup with the string key
TableGetString(ks, table, key) ==
  IF rb_hash_lookup2(ks.w.heap, table.rb, ks.h, Qundef) = Qundef
  THEN TableGetSymbol(cache_fetch_symbol(ks.w, table.owner, key), table)
  ELSE rb_to_mongory_value_shallow(ks.w, table.pool,
                                   rb_hash_lookup2(ks.w.heap, table.rb, ks.h, Qundef))

\* An owner that is no pointer to a matcher is dereferenced by the fetch.
rb_mongory_table_get(w, table, key) ==
  IF table.owner = "junk" THEN Raise(w, "SIGSEGV")
  ELSE TableGetString(cache_fetch_string(w, table.owner, key), table, key)

rb_mongory_array_get(w, array, index) ==
  IF index >= Len(w.heap[array.rb].val) THEN Ok(w, NullPtr)
  ELSE rb_to_mongory_value_shallow(w, array.pool, w.heap[array.rb].val[index + 1])

(***************************************************************************)
(* The marking pass of the host's collector.                               *)
(***************************************************************************)
\* gc_mark_array_cb over the mark list: the origins that are marked directly
rb_mongory_matcher_mark(wr) ==
  {wr.mark_list[i].origin : i \in {j \in DOMAIN wr.mark_list :
                                      CTrue(wr.mark_list[j].origin)}}

\* the handles an object of the host refers to
HostRefs(hp, h) ==
  CASE hp[h].type = "T_HASH" ->
         UNION {{hp[h].val[i][1], hp[h].val[i][2]} : i \in DOMAIN hp[h].val}
    [] hp[h].type = "T_ARRAY" -> {hp[h].val[i] : i \in DOMAIN hp[h].val}
    [] hp[h].type = "T_OBJECT" /\ "cond" \in DOMAIN hp[h].val ->
         {hp[h].val.cond, hp[h].val.ctx}
    [] OTHER -> {}

\* what a marking pass reaches from a set of roots
RECURSIVE HostReach(_, _)
HostReach(hp, roots) ==
  LET live == roots \cap DOMAIN hp
      more == live \cup (UNION {HostRefs(hp, h) : h \in live} \cap DOMAIN hp)
  IN IF more = live THEN live ELSE HostReach(hp, more)

\* The objects a collection leaves: those the caller holds, those the mark
\* list names, and what these refer to.
Survivors == HostReach(heap, DOMAIN UserHeap \cup rb_mongory_matcher_mark(wrapper))

\* the objects a collection during the call leaves
Marked(w) == HostReach(w.heap, DOMAIN UserHeap \cup rb_mongory_matcher_mark(w.wr))

(***************************************************************************)
(* The adapters the bridge registers with the core.                        *)
(***************************************************************************)
\* Regexp#match? of the host: a pattern matches the strings (and symbols)
\* that spell it.
HostText(hp, v) ==
  CASE TYPE(hp, v) = "T_STRING" -> hp[v].val.bytes
    [] TYPE(hp, v) = "T_SYMBOL" -> hp[v].val
    [] OTHER -> ""
HostRegexMatch(hp, rb_re, rb_str) == hp[rb_re].val = HostText(hp, rb_str)

\* lines 589-593: Regexp.new(pattern->origin), written back onto the pattern
RegexCompile(w, pool, pattern, value) ==
  [w |-> [Alloc(HostNew(w, Obj("T_REGEXP", HostText(w.heap, pattern.origin))), pool, 1)
            EXCEPT !.compiled = @ \cup {FreshHandle(w)}],
   p |-> [MgValue("REGEX", FreshHandle(w)) EXCEPT !.origin = FreshHandle(w)],
   res |-> HostText(w.heap, pattern.origin) = HostText(w.heap, value.origin),
   ex |-> ""]

\* Returns the pattern value as the call leaves it, and the result.
\* Lines 587-588 call match? on the handle the pattern holds. When a collection
\* has reclaimed that object (w.gc), the call runs on a freed slot: the host
\* raises NoMethodError for whatever lives there now, or the process dies.
rb_mongory_regex_match_adapter(w, pool, pattern, value) ==
  IF IsNull(pattern) \/ IsNull(value)
  THEN [w |-> w, p |-> pattern, res |-> FALSE, ex |-> ""]
  ELSE IF value.type # "STRING" THEN [w |-> w, p |-> pattern, res |-> FALSE, ex |-> ""]
  ELSE IF pattern.type = "REGEX" /\ CTrue(pattern.data)
       THEN IF w.gc # "kept" /\ pattern.data \notin Marked(w)
            THEN [w |-> w, p |-> pattern, res |-> FALSE, ex |-> w.gc]
            ELSE [w |-> w, p |-> pattern, ex |-> "",
                  res |-> HostRegexMatch(w.heap, pattern.data, value.origin)]
  ELSE IF pattern.type = "STRING" THEN RegexCompile(w, pool, pattern, value)
  ELSE [w |-> w, p |-> pattern, res |-> FALSE, ex |-> ""]

\* Mongory::Matchers.lookup(key): the predicate types the host registered.
HostLookup(key) == IF key = "$cust" THEN "kls" ELSE Qnil

rb_mongory_custom_matcher_lookup(key) == RTEST(HostLookup(key))

\* lines 618-645, after the key string was fetched from the cache
CustomBuild(ks, condition, ctx) ==
  IF HostLookup(ks.w.heap[ks.h].val.bytes) = Qnil THEN [w |-> ks.w, h |-> Qfalse]
  ELSE [w |-> [Alloc(HostNew(HostCall(ks.w, "custom_matcher_new",
                                      {ks.h, condition.origin, ctx},
                                      {ks.w.wr.ctx, ks.w.wr.condition.origin}
                                        \cup rb_mongory_matcher_mark(ks.w.wr)),
                             Obj("T_OBJECT",
                       [conv |-> "same", cond |-> condition.origin, ctx |-> ctx])),
                     ks.w.wr.pool, 2)
                 EXCEPT !.wr.mark_list = Append(@, MarkRef(StoreOf(FreshHandle(ks.w))))],
        h |-> FreshHandle(ks.w)]

\* Returns the host predicate instance (external_matcher), Qfalse for NULL.
rb_mongory_custom_matcher_build(w, key, condition, ctx) ==
  CustomBuild(cache_fetch_string(w, w.pools[w.wr.pool].owner, key), condition, ctx)

\* matcher.match?(value->origin) of the host predicate
rb_mongory_custom_matcher_match(hp, ruby_matcher, value) ==
  hp[ruby_matcher].val.cond = value.origin

\* rb_raise leaves the function through the host's exception handling: the
\* two statements after it are not executed.  raise: the exception left the
\* handler; ret: the value returned to the handler otherwise.
rb_mongory_error_handling(w, pool) ==
  IF w.pools[pool].error
  THEN [raise |-> TRUE, ret |-> FALSE, w |-> w]
  ELSE [raise |-> FALSE, ret |-> FALSE, w |-> w]

(***************************************************************************)
(* The core's evaluator, as far as the bridge's contract with it goes: it  *)
(* is built from the converted condition, reads the data through the lazy  *)
(* views, and calls the adapters.  A condition is a table of fields; a     *)
(* field's sub-condition is a literal, a nested table of fields, or a      *)
(* table with the operator "$regex" or a registered custom operator.       *)
(***************************************************************************)
Scalars == {"NULL", "BOOL", "INT", "DOUBLE", "STRING"}
NativeEq(a, b) ==
  ~IsNull(b) /\ a.type = b.type /\ a.type \in Scalars /\ a.data = b.data

\* the record of one table->get: what was asked, what came back, and the
\* allocations the view's pool counted for it
NoteGet(w, table, key, r) ==
  [r EXCEPT !.w.gets = Append(@, [rb |-> table.rb, key |-> key, ex |-> r.ex,
                                   type |-> r.v.type, origin |-> r.v.origin,
                                   allocs |-> r.w.pools[table.pool].used
                                                - w.pools[table.pool].used,
                                   convs |-> SubSeq(r.w.convs, Len(w.convs) + 1,
                                                    Len(r.w.convs))])]

TableGet(w, table, key) == NoteGet(w, table, key, rb_mongory_table_get(w, table, key))

\* the keys the evaluator reads as positions of an array
ArrayIndex == ("0" :> 0) @@ ("1" :> 1) @@ ("2" :> 2)

\* the record of one array->get
NoteArrayGet(w, array, index, r) ==
  [r EXCEPT !.w.agets = Append(@, [rb |-> array.rb, index |-> index, ex |-> r.ex,
                                    type |-> r.v.type, origin |-> r.v.origin,
                                    convs |-> SubSeq(r.w.convs, Len(w.convs) + 1,
                                                     Len(r.w.convs))])]

ArrayGet(w, array, index) ==
  NoteArrayGet(w, array, index, rb_mongory_array_get(w, array, index))

\* the field of the data a key of the condition names
FieldGet(w, dv, k) ==
  IF dv.type = "TABLE" /\ dv.data.lazy THEN TableGet(w, dv.data, k)
  ELSE IF dv.type = "ARRAY" /\ dv.data.lazy /\ k \in DOMAIN ArrayIndex
  THEN ArrayGet(w, dv.data, ArrayIndex[k])
  ELSE Ok(w, NullPtr)

RECURSIVE BuildKeys(_, _, _, _, _, _)

BuildCustom(b, cond, i, path, ctx, customs) ==
  BuildKeys(b.w, cond, i + 1, path, ctx, MapSet(customs, path, b.h))

BuildNested(n, cond, i, path, ctx) ==
  BuildKeys(n.w, cond, i + 1, path, ctx, n.customs)

BuildKey(w, cond, i, k, sub, path, ctx, customs) ==
  IF rb_mongory_custom_matcher_lookup(k)
  THEN BuildCustom(rb_mongory_custom_matcher_build(w, k, sub, ctx),
                   cond, i, path, ctx, customs)
  ELSE IF sub.type = "TABLE"
  THEN BuildNested(BuildKeys(w, sub, 1, path \o "/" \o k, ctx, customs),
                   cond, i, path, ctx)
  ELSE BuildKeys(w, cond, i + 1, path, ctx, customs)

BuildKeys(w, cond, i, path, ctx, customs) ==
  IF i > Len(cond.data.keys) THEN [w |-> w, customs |-> customs]
  ELSE BuildKey(w, cond, i, cond.data.keys[i], cond.data.entries[cond.data.keys[i]],
                path, ctx, customs)

BuildDone(b, pool, oom) ==
  [w |-> [b.w EXCEPT !.pools[pool].error = oom],
   m |-> [built |-> ~oom, customs |-> b.customs]]

\* mongory_matcher_new: a condition that is no table is rejected through the
\* pool's error slot; oom is an allocation failure of the pool during the build.
mongory_matcher_new(w, pool, condition, ctx, oom) ==
  IF condition.type # "TABLE"
  THEN [w |-> [w EXCEPT !.pools[pool].error = TRUE],
        m |-> [built |-> FALSE, customs |-> << >>]]
  ELSE BuildDone(BuildKeys(Alloc(w, pool, 1), condition, 1, "", ctx, << >>), pool, oom)

RECURSIVE MatchKeys(_, _, _, _, _, _)

MatchField(g, sub, path, k, customs) ==
  IF g.ex # "" THEN [w |-> g.w, c |-> sub, res |-> FALSE, ex |-> g.ex]
  ELSE IF sub.type = "TABLE"
  THEN MatchKeys(g.w, sub, 1, path \o "/" \o k, g.v, customs)
  ELSE [w |-> g.w, c |-> sub, res |-> NativeEq(sub, g.v), ex |-> ""]

MatchRegex(r) == [w |-> r.w, c |-> r.p, res |-> r.res, ex |-> r.ex]

MatchStep(w, k, sub, path, dv, customs) ==
  IF k = "$regex"
  THEN MatchRegex(rb_mongory_regex_match_adapter(w, w.wr.pool, sub, dv))
  ELSE IF path \in DOMAIN customs /\ rb_mongory_custom_matcher_lookup(k)
  THEN [w |-> w, c |-> sub, ex |-> "",
        res |-> /\ ~IsNull(dv)
                /\ CTrue(customs[path])
                /\ rb_mongory_custom_matcher_match(w.heap, customs[path], dv)]
  ELSE MatchField(FieldGet(w, dv, k), sub, path, k, customs)

MatchNext(step, cond, i, k, path, dv, customs) ==
  IF step.ex # "" \/ ~step.res
  THEN [w |-> step.w, c |-> [cond EXCEPT !.data.entries[k] = step.c],
        res |-> FALSE, ex |-> step.ex]
  ELSE MatchKeys(step.w, [cond EXCEPT !.data.entries[k] = step.c],
                 i + 1, path, dv, customs)

MatchKeys(w, cond, i, path, dv, customs) ==
  IF i > Len(cond.data.keys) THEN [w |-> w, c |-> cond, res |-> TRUE, ex |-> ""]
  ELSE MatchNext(MatchStep(w, cond.data.keys[i], cond.data.entries[cond.data.keys[i]],
                           path, dv, customs),
                 cond, i, cond.data.keys[i], path, dv, customs)

\* mongory_matcher_match and mongory_matcher_trace: the result, and the
\* condition tree as the adapters leave it
mongory_matcher_match(w, dv) ==
  MatchKeys(Step(w, "evaluate", "null"), w.wr.condition, 1, "", dv, w.wr.matcher.customs)

(***************************************************************************)
(* State.                                                                  *)
(***************************************************************************)
NoPool == "null"

\* rb_mongory_memory_pool_new leaves the owner field as malloc returned it
rb_mongory_memory_pool_new ==
  [state |-> "live", used |-> 0, error |-> FALSE, owner |-> "junk"]
\* pool->reset and pool->free of the core
PoolReset(w, p) == Step([w EXCEPT !.pools[p].used = 0], "reset", p)

\* mongory_matcher_print_trace and mongory_matcher_enable_trace of the core:
\* the trace is read from, and set up in, the trace pool
mongory_matcher_print_trace(w, trace_pool) ==
  Step(Alloc(w, trace_pool, 1), "print_trace", trace_pool)
mongory_matcher_enable_trace(w, trace_pool) ==
  Step(Alloc(w, trace_pool, 1), "enable_trace", trace_pool)
PoolFree(w, p) ==
  [w EXCEPT !.pools[p] = [state |-> IF @.state = "live" THEN "freed" ELSE "freed twice",
                          used |-> 0, error |-> FALSE, owner |-> "junk"],
            !.frees = Append(@, p)]
\* a pool created during the run, under the next unused name
NextPool(w) == "t" \o ToString(w.npools + 1)
PoolNew(w, pool) ==
  [w EXCEPT !.pools = (NextPool(w) :> pool) @@ @, !.npools = @ + 1]

NoWrapper ==
  [state |-> "none", pool |-> NoPool, scratch_pool |-> NoPool, trace_pool |-> NoPool,
   ctx |-> Qfalse, string_map |-> << >>, symbol_map |-> << >>, mark_list |-> << >>,
   condition |-> NullPtr, matcher |-> [built |-> FALSE, customs |-> << >>]]

NoCall ==
  [op |-> "none", arg |-> Qundef, res |-> "none", ex |-> "", made |-> {},
   gets |-> << >>, hooked |-> {}, compiled |-> {}, frees |-> << >>, convs |-> << >>,
   agets |-> << >>, steps |-> << >>, hostcalls |-> << >>,
   value |-> NullPtr]

\* The world a handler runs in: the state, and what the call has done so far.
World ==
  [heap |-> heap, nfresh |-> nfresh, pools |-> pools, npools |-> npools,
   wr |-> wrapper, gets |-> << >>, hooked |-> {}, compiled |-> {}, frees |-> << >>,
   convs |-> << >>, agets |-> << >>, steps |-> << >>, gc |-> "kept",
   hostcalls |-> << >>]

\* A collection between two calls reclaims what the marking pass does not
\* reach; a later use of such an object is one of these.
GcOutcomes ==
  IF \A h \in DOMAIN heap : heap[h].type = "T_REGEXP" => h \in Survivors THEN {"kept"}
  ELSE {"kept", "NoMethodError", "SIGSEGV"}

\* The record a call leaves: its result, and what it allocated and freed.
Call(w, op, arg, res, ex, mv) ==
  [op |-> op, arg |-> arg, res |-> res, ex |-> ex,
   made |-> {h \in DOMAIN w.heap : h \notin DOMAIN heap},
   gets |-> w.gets, hooked |-> w.hooked, compiled |-> w.compiled, convs |-> w.convs,
   agets |-> w.agets, steps |-> w.steps, hostcalls |-> w.hostcalls,
   frees |-> w.frees, value |-> mv]

\* The handler's effects become the next state; the bounds stop a run that
\* would allocate past them.
Commit(w, call) ==
  /\ w.nfresh <= MaxFresh
  /\ \/ w.npools <= MaxPools
     \/ /\ w.npools <= MaxTracePools
        /\ w.nfresh = 0
        /\ w.npools > npools => call.op = "enable_trace"
  /\ \A p \in DOMAIN w.pools : p # "long" => w.pools[p].used <= MaxUsed
  /\ heap' = w.heap
  /\ nfresh' = w.nfresh
  /\ pools' = w.pools
  /\ npools' = w.npools
  /\ wrapper' = w.wr
  /\ last' = call

Boolean(b) == IF b THEN "true" ELSE "false"

\* the process died of a signal
Crash(w, op, arg) ==
  Commit([w EXCEPT !.wr.state = "crashed"], Call(w, op, arg, "crash", "SIGSEGV", NullPtr))

\* a host exception left the handler at this point
Raised(w, op, arg, ex) ==
  IF ex = "SIGSEGV" THEN Crash(w, op, arg)
  ELSE Commit(w, Call(w, op, arg, "raise", ex, NullPtr))

Init ==
  /\ heap = UserHeap
  /\ nfresh = 0
  /\ pools = << >>
  /\ npools = 0
  /\ wrapper = NoWrapper
  /\ last = NoCall
  /\ hist = [cond |-> Qundef, ctx |-> Qundef, converted |-> Qundef]

(***************************************************************************)
(* Mongory::CMatcher.new(condition, context: ctx)                          *)
(***************************************************************************)
\* Mongory.condition_converter.convert(condition): the hook answers with its
\* argument or with a new hash of the same pairs.
ConditionConvert(w, condition, copy) ==
  IF copy /\ TYPE(w.heap, condition) = "T_HASH"
  THEN [w |-> HostNew(HostCall(w, "condition_converter", {condition}, {w.wr.ctx}),
                      w.heap[condition]),
        h |-> FreshHandle(w)]
  ELSE [w |-> HostCall(w, "condition_converter", {condition}, {w.wr.ctx}),
        h |-> condition]

\* Lines 124-134 without the else branch: no context object is built when
\* none was passed.
ArgvContextNoDefault(w, ctx_arg) ==
  IF ctx_arg # Qundef THEN [w EXCEPT !.wr.ctx = ctx_arg] ELSE w

\* lines 124-134; ctx_arg is Qundef when no context keyword was passed
ArgvContext(w, ctx_arg) ==
  IF ctx_arg # Qundef THEN [w EXCEPT !.wr.ctx = ctx_arg]
  ELSE [HostNew(w, Obj("T_OBJECT", [conv |-> "same"])) EXCEPT !.wr.ctx = FreshHandle(w)]

\* Lines 136-140 with the condition value's origin left as the wrap function
\* made it.
ArgvStoreOriginUnset(d, converted) ==
  IF d.ex # "" THEN [w |-> d.w, ex |-> d.ex, converted |-> converted]
  ELSE [w |-> [Alloc(d.w, d.w.wr.pool, 1) EXCEPT
                 !.wr.condition = [d.v EXCEPT !.origin = Qfalse],
                 !.wr.mark_list = @ \o <<MarkRef(d.v),
                                         MarkRef(StoreOf(d.w.wr.ctx))>>],
        ex |-> "", converted |-> converted]

\* lines 136-140
ArgvStore(d, converted) ==
  IF d.ex # "" THEN [w |-> d.w, ex |-> d.ex, converted |-> converted]
  ELSE [w |-> [Alloc(d.w, d.w.wr.pool, 1) EXCEPT
                 !.wr.condition = d.v,
                 !.wr.mark_list = @ \o <<MarkRef(d.v),
                                         MarkRef(StoreOf(d.w.wr.ctx))>>],
        ex |-> "", converted |-> converted]

\* lines 135-136
ArgvCondition(cc) ==
  ArgvStore(rb_to_mongory_value_deep(cc.w, cc.w.wr.pool, cc.h), cc.h)

rb_mongory_matcher_parse_argv(w, condition, ctx_arg, copy) ==
  ArgvCondition(ConditionConvert(ArgvContext(w, ctx_arg), condition, copy))

\* lines 92-107: the two pools and the wrapper
NewWrapper ==
  Alloc([World EXCEPT
           !.pools = ("long" :> [rb_mongory_memory_pool_new EXCEPT !.owner = "self"])
                  @@ ("scratch" :> [rb_mongory_memory_pool_new EXCEPT !.owner = "self"]),
           !.wr = [NoWrapper EXCEPT !.pool = "long", !.scratch_pool = "scratch"]],
        "long", 3)

\* lines 111-119
NewCheck(e, m, condition) ==
  IF e.raise
  THEN Commit([e.w EXCEPT !.wr.state = "failed"],
              Call(e.w, "new", condition, "raise", "Mongory::TypeError", NullPtr))
  ELSE IF e.ret
  THEN Commit([PoolFree(PoolFree(e.w, "long"), "scratch") EXCEPT !.wr = NoWrapper,
                                                               !.wr.state = "failed"],
              Call(PoolFree(PoolFree(e.w, "long"), "scratch"),
                   "new", condition, "nil", "", NullPtr))
  ELSE Commit([e.w EXCEPT !.wr.matcher = m, !.wr.state = "built"],
              Call(e.w, "new", condition, "matcher", "", NullPtr))

NewBuilt(m, condition) ==
  NewCheck(rb_mongory_error_handling(m.w, "long"), m.m, condition)

NewParsed(a, condition, ctx_arg, oom) ==
  /\ hist' = [cond |-> condition, ctx |-> ctx_arg, converted |-> a.converted]
  /\ IF a.ex # ""
     THEN Commit([a.w EXCEPT !.wr.state = "failed"],
                 Call(a.w, "new", condition, "raise", a.ex, NullPtr))
     ELSE NewBuilt(mongory_matcher_new(a.w, "long", a.w.wr.condition, a.w.wr.ctx, oom),
                   condition)

rb_mongory_matcher_new(condition, ctx_arg, copy, oom) ==
  /\ wrapper.state = "none"
  /\ NewParsed(rb_mongory_matcher_parse_argv(NewWrapper, condition, ctx_arg, copy),
               condition, ctx_arg, oom)

(***************************************************************************)
(* Mongory::CMatcher#match?(data)                                          *)
(***************************************************************************)
\* lines 158-166
MatchTraced(w, trace_pool) ==
  mongory_matcher_enable_trace(
    PoolReset(mongory_matcher_print_trace(w, trace_pool), trace_pool), trace_pool)

\* The same three calls after the reset of the scratch pool.
MatchReturnResetFirst(w, trace_pool, data, res, mv) ==
  IF trace_pool # NoPool
  THEN Commit(MatchTraced(PoolReset(w, w.wr.scratch_pool), trace_pool),
              Call(MatchTraced(PoolReset(w, w.wr.scratch_pool), trace_pool),
                   "match", data, Boolean(res), "", mv))
  ELSE Commit(PoolReset(w, w.wr.scratch_pool),
              Call(PoolReset(w, w.wr.scratch_pool), "match", data, Boolean(res), "", mv))

MatchReturn(w, trace_pool, data, res, mv) ==
  IF trace_pool # NoPool
  THEN Commit(PoolReset(MatchTraced(w, trace_pool), w.wr.scratch_pool),
              Call(PoolReset(MatchTraced(w, trace_pool), w.wr.scratch_pool),
                   "match", data, Boolean(res), "", mv))
  ELSE Commit(PoolReset(w, w.wr.scratch_pool),
              Call(PoolReset(w, w.wr.scratch_pool), "match", data, Boolean(res), "", mv))

\* line 156
MatchEvaluated(r, data, mv) ==
  IF r.ex # "" THEN Raised([r.w EXCEPT !.wr.condition = r.c], "match", data, r.ex)
  ELSE MatchReturn([r.w EXCEPT !.wr.condition = r.c], wrapper.trace_pool,
                   data, r.res, mv)

\* lines 152-154
MatchChecked(e, data, mv) ==
  IF e.raise THEN Raised(e.w, "match", data, "Mongory::TypeError")
  ELSE IF e.ret THEN Commit(e.w, Call(e.w, "match", data, "nil", "", mv))
  ELSE MatchEvaluated(mongory_matcher_match(e.w, mv), data, mv)

\* line 150; oom: the allocator fails during the conversion and sets the
\* pool's error slot
MatchConverted(c, data, oom) ==
  IF c.ex # "" THEN Raised(c.w, "match", data, c.ex)
  ELSE MatchChecked(
         rb_mongory_error_handling(
           [c.w EXCEPT !.pools[wrapper.scratch_pool].error = @ \/ oom],
           wrapper.scratch_pool),
         data, c.v)

rb_mongory_matcher_match(data, oom, gc) ==
  /\ wrapper.state = "built"
  /\ MatchConverted(rb_to_mongory_value_shallow([World EXCEPT !.gc = gc],
                                                wrapper.scratch_pool, data),
                    data, oom)
  /\ UNCHANGED hist

(***************************************************************************)
(* Mongory::CMatcher#explain                                               *)
(***************************************************************************)
ExplainChecked(e) ==
  IF e.raise THEN Raised(e.w, "explain", Qundef, "Mongory::TypeError")
  ELSE IF e.ret THEN Commit(e.w, Call(e.w, "explain", Qundef, "nil", "", NullPtr))
  ELSE Commit(PoolReset(e.w, e.w.wr.scratch_pool),
              Call(e.w, "explain", Qundef, "nil", "", NullPtr))

\* mongory_matcher_explain writes its text into the scratch pool
rb_mongory_matcher_explain(oom) ==
  /\ wrapper.state = "built"
  /\ ExplainChecked(
       rb_mongory_error_handling(
         [Alloc(World, wrapper.scratch_pool, 1)
            EXCEPT !.pools[wrapper.scratch_pool].error = @ \/ oom],
         wrapper.scratch_pool))
  /\ UNCHANGED hist

(***************************************************************************)
(* Mongory::CMatcher#trace(data)                                           *)
(***************************************************************************)
\* lines 193-196
TraceEvaluated(r, trace_pool, data, mv) ==
  IF r.ex # "" THEN Raised([r.w EXCEPT !.wr.condition = r.c], "trace", data, r.ex)
  ELSE Commit(PoolFree([r.w EXCEPT !.wr.condition = r.c], trace_pool),
              Call(PoolFree(r.w, trace_pool), "trace", data, Boolean(r.res), "", mv))

\* lines 188-191
TraceChecked(e, trace_pool, data, mv) ==
  IF e.raise THEN Raised(e.w, "trace", data, "Mongory::TypeError")
  ELSE IF e.ret
  THEN Commit(PoolFree(e.w, trace_pool),
              Call(PoolFree(e.w, trace_pool), "trace", data, "nil", "", mv))
  ELSE TraceEvaluated(mongory_matcher_match(e.w, mv), trace_pool, data, mv)

TraceConverted(c, trace_pool, data, oom) ==
  IF c.ex # "" THEN Raised(c.w, "trace", data, c.ex)
  ELSE TraceChecked(
         rb_mongory_error_handling([c.w EXCEPT !.pools[trace_pool].error = @ \/ oom],
                                   trace_pool),
         trace_pool, data, c.v)

\* line 185 takes a pool of the core, which has no owner field: owner is what
\* the wrap functions read behind it.
TracePool(w, owner, data, oom) ==
  TraceConverted(rb_to_mongory_value_shallow(
                   PoolNew(w, [rb_mongory_memory_pool_new EXCEPT !.owner = owner]),
                   NextPool(w), data),
                 NextPool(w), data, oom)

rb_mongory_matcher_trace(data, owner, oom, gc) ==
  /\ wrapper.state = "built"
  /\ TracePool([World EXCEPT !.gc = gc], owner, data, oom)
  /\ UNCHANGED hist

(***************************************************************************)
(* Mongory::CMatcher#enable_trace, #disable_trace, #print_trace            *)
(***************************************************************************)
EnableChecked(e, trace_pool) ==
  IF e.raise THEN Raised(e.w, "enable_trace", Qundef, "Mongory::TypeError")
  ELSE IF e.ret
  THEN Commit(PoolFree(e.w, trace_pool),
              Call(PoolFree(e.w, trace_pool), "enable_trace", Qundef, "nil", "", NullPtr))
  ELSE Commit([e.w EXCEPT !.wr.trace_pool = trace_pool],
              Call(e.w, "enable_trace", Qundef, "nil", "", NullPtr))

\* mongory_matcher_enable_trace sets the trace up in the new pool
rb_mongory_matcher_enable_trace(oom) ==
  /\ wrapper.state = "built"
  /\ EnableChecked(
       rb_mongory_error_handling(
         [Alloc(PoolNew(World, rb_mongory_memory_pool_new), NextPool(World), 1)
            EXCEPT !.pools[NextPool(World)].error = oom],
         NextPool(World)),
       NextPool(World))
  /\ UNCHANGED hist

\* lines 221-225; the return value of the check is not used
DisableChecked(e, trace_pool) ==
  IF e.raise THEN Raised(e.w, "disable_trace", Qundef, "Mongory::TypeError")
  ELSE Commit([PoolFree(e.w, trace_pool) EXCEPT !.wr.trace_pool = NoPool],
              Call(PoolFree(e.w, trace_pool), "disable_trace", Qundef, "nil", "", NullPtr))

\* With no trace pool attached the check reads the error slot of a null pool.
rb_mongory_matcher_disable_trace ==
  /\ wrapper.state = "built"
  /\ IF wrapper.trace_pool = NoPool THEN Crash(World, "disable_trace", Qundef)
     ELSE DisableChecked(rb_mongory_error_handling(World, wrapper.trace_pool),
                         wrapper.trace_pool)
  /\ UNCHANGED hist

PrintChecked(e) ==
  IF e.raise THEN Raised(e.w, "print_trace", Qundef, "Mongory::TypeError")
  ELSE Commit(e.w, Call(e.w, "print_trace", Qundef, "nil", "", NullPtr))

rb_mongory_matcher_print_trace ==
  /\ wrapper.state = "built"
  /\ IF wrapper.trace_pool = NoPool THEN Crash(World, "print_trace", Qundef)
     ELSE PrintChecked(rb_mongory_error_handling(World, wrapper.trace_pool))
  /\ UNCHANGED hist

(***************************************************************************)
(* Mongory::CMatcher#condition and #context                                *)
(***************************************************************************)
rb_mongory_matcher_condition == wrapper.condition.origin

rb_mongory_matcher_context == IF CTrue(wrapper.ctx) THEN wrapper.ctx ELSE Qnil

(***************************************************************************)
(* The destruction hook.                                                   *)
(***************************************************************************)
\* The hook without lines 284-286: the trace pool is left alone.
FreeWithoutTracePool(w) == PoolFree(PoolFree(w, w.wr.pool), w.wr.scratch_pool)

rb_mongory_matcher_free(w) ==
  IF w.wr.trace_pool # NoPool
  THEN PoolFree(PoolFree(PoolFree(w, w.wr.pool), w.wr.scratch_pool), w.wr.trace_pool)
  ELSE PoolFree(PoolFree(w, w.wr.pool), w.wr.scratch_pool)

Free ==
  /\ wrapper.state = "built"
  /\ Commit([rb_mongory_matcher_free(World) EXCEPT !.wr.state = "freed"],
            Call(rb_mongory_matcher_free(World), "free", Qundef, "none", "", NullPtr))
  /\ UNCHANGED hist

(***************************************************************************)
(* The specification.                                                      *)
(***************************************************************************)
New ==
  \E condition \in Conditions, a \in NewArgs, oom \in BOOLEAN :
    rb_mongory_matcher_new(condition, a[1], a[2], oom)

Match ==
  \E data \in Datas, oom \in BOOLEAN, gc \in GcOutcomes :
    rb_mongory_matcher_match(data, oom, gc)

Explain == \E oom \in BOOLEAN : rb_mongory_matcher_explain(oom)

Trace ==
  \E data \in TraceDatas, owner \in {"null", "junk"}, oom \in BOOLEAN,
     gc \in GcOutcomes :
    rb_mongory_matcher_trace(data, owner, oom, gc)

EnableTrace == \E oom \in BOOLEAN : rb_mongory_matcher_enable_trace(oom)

DisableTrace == rb_mongory_matcher_disable_trace

PrintTrace == rb_mongory_matcher_print_trace

Next ==
  \/ New
  \/ Match
  \/ Explain
  \/ Trace
  \/ EnableTrace
  \/ DisableTrace
  \/ PrintTrace
  \/ Free

Spec == Init /\ [][Next]_vars

(***************************************************************************)
(* The conversions on their own: the wrapper as lines 92-107 leave it, and  *)
(* one action per conversion entry point, applied to a value of the host.   *)
(***************************************************************************)
ConvInputs == Primitives \cup {"dStr", "dArr"}

ConvInit ==
  /\ heap = UserHeap
  /\ nfresh = 0
  /\ pools = ("long" :> [rb_mongory_memory_pool_new EXCEPT !.owner = "self",
                                                           !.used = 3])
           @@ ("scratch" :> [rb_mongory_memory_pool_new EXCEPT !.owner = "self"])
  /\ npools = 0
  /\ wrapper = [NoWrapper EXCEPT !.pool = "long", !.scratch_pool = "scratch"]
  /\ last = NoCall
  /\ hist = [cond |-> Qundef, ctx |-> Qundef, converted |-> Qundef]

\* the call record of a conversion: the native value, or the exception
Converted(r, op, v) ==
  /\ r.w.pools["long"].used <= MaxUsed + 3
  /\ Commit(r.w, Call(r.w, op, v, IF r.ex = "" THEN "value" ELSE "raise", r.ex, r.v))
  /\ UNCHANGED hist

\* rb_to_mongory_value_shallow(scratch_pool, v), as match? calls it
ShallowConvert ==
  \E v \in ConvInputs :
    Converted(rb_to_mongory_value_shallow(World, wrapper.scratch_pool, v), "shallow", v)

\* rb_to_mongory_value_deep(pool, v), as new calls it
DeepConvert ==
  \E v \in ConvInputs :
    Converted(rb_to_mongory_value_deep(World, wrapper.pool, v), "deep", v)

\* scratch_pool->reset, as match? and explain call it
ScratchReset ==
  /\ pools[wrapper.scratch_pool].used > 0
  /\ Commit(PoolReset(World, wrapper.scratch_pool),
            Call(World, "reset", Qundef, "none", "", NullPtr))
  /\ UNCHANGED hist

ConvNext ==
  \/ ShallowConvert
  \/ DeepConvert
  \/ ScratchReset

ConvSpec == ConvInit /\ [][ConvNext]_vars

(***************************************************************************)
(* What the native side holds.                                             *)
(***************************************************************************)
\* the key handles the two caches hold
KeyOrigins(wr) ==
  {wr.string_map[k].origin : k \in DOMAIN wr.string_map}
    \cup {wr.symbol_map[k].origin : k \in DOMAIN wr.symbol_map}

\* the predicate instances the evaluator holds
CustomInstances(wr) == {wr.matcher.customs[k] : k \in DOMAIN wr.matcher.customs}

(***************************************************************************)
(* Properties.                                                             *)
(***************************************************************************)
\* C1: when match? has returned or raised, the scratch pool has been reset:
\* its usage is zero when the next operation starts.
C1_ScratchResetAfterMatch ==
  (last.op = "match" /\ wrapper.state = "built")
    => pools[wrapper.scratch_pool].used = 0

\* C2: when new has failed on a pending error of the long pool, the long pool
\* and the scratch pool are both freed.
C2_FailedCreateFreesPools ==
  (last.op = "new" /\ last.ex = "Mongory::TypeError")
    => /\ pools["long"].state = "freed"
       /\ pools["scratch"].state = "freed"

\* C3: when match? or explain has reported a pending error of the scratch
\* pool, the error slot of the scratch pool is empty.
C3_SlotClearedWhenSurfaced ==
  (last.op \in {"match", "explain"} /\ last.ex = "Mongory::TypeError")
    => ~pools[wrapper.scratch_pool].error

\* C4: two consecutive match? calls with the same data give the same result
\* and leave the same scratch pool usage.
C4_RepeatedMatchSame ==
  [][(last.op = "match" /\ last'.op = "match" /\ last'.arg = last.arg)
       => /\ last'.res = last.res
          /\ pools'[wrapper.scratch_pool].used = pools[wrapper.scratch_pool].used]_vars

\* C5: after a successful new, every host object allocated by the call, every
\* answer of the data converter hook and every key handle in the caches
\* survives a collection.
C5_RootsCompleteAfterCreate ==
  (last.op = "new" /\ last.res = "matcher")
    => (last.made \cup last.hooked \cup KeyOrigins(wrapper)) \cap DOMAIN heap
         \subseteq Survivors

\* C6: after a match?, every host object the call allocated and left
\* referenced from the caches, the condition tree or the evaluator survives a
\* collection.
C6_MatchProductsRooted ==
  (last.op = "match" /\ last.res \in {"true", "false"})
    => last.made \cap (KeyOrigins(wrapper) \cup last.compiled
                         \cup CustomInstances(wrapper))
         \subseteq Survivors

\* C7: for a primitive of the host whose conversion completes, the recover
\* function applied to the shallow or deep conversion gives the same handle.
C7_RoundTripCompleted ==
  (last.op \in {"shallow", "deep"} /\ last.arg \in Primitives /\ last.ex = "")
    => mongory_value_to_ruby(last.value) = last.arg

\* C7: a string primitive has been deep-converted and recovered
C7_RoundTripReached ==
  /\ last.op = "deep"
  /\ last.arg = "sA"
  /\ last.ex = ""
  /\ mongory_value_to_ruby(last.value) = "sA"

\* C7: for every primitive of the host, the recover function applied to the
\* shallow or deep conversion gives the same handle.
C7_RoundTripEveryPrimitive ==
  (last.op \in {"shallow", "deep"} /\ last.arg \in Primitives)
    => mongory_value_to_ruby(last.value) = last.arg

\* the values a host table stores under the keys of one type that spell key
FlavorValues(hp, rb, key, t) ==
  {hp[rb].val[i][2] : i \in {j \in DOMAIN hp[rb].val :
                               /\ TYPE(hp, hp[rb].val[j][1]) = t
                               /\ HostText(hp, hp[rb].val[j][1]) = key}}

\* C8: a get on a lazy table view that returns, for a key the host table
\* stores only as a symbol or only as a string, gives the value of that entry.
C8_KeyFlavorFallback ==
  \A i \in DOMAIN last.gets :
    (/\ last.gets[i].ex = ""
     /\ (FlavorValues(heap, last.gets[i].rb, last.gets[i].key, "T_SYMBOL") = {})
          # (FlavorValues(heap, last.gets[i].rb, last.gets[i].key, "T_STRING") = {}))
      => /\ last.gets[i].type # "NULLPTR"
         /\ last.gets[i].origin
              \in FlavorValues(heap, last.gets[i].rb, last.gets[i].key, "T_SYMBOL")
                    \cup FlavorValues(heap, last.gets[i].rb, last.gets[i].key, "T_STRING")

\* C8: a get of "a" on a table that stores it only as the symbol :a has
\* returned the entry's value
C8_SymbolFallbackReached ==
  /\ last.op = "match"
  /\ last.arg = "dSym"
  /\ Len(last.gets) > 0
  /\ last.gets[1].key = "a"
  /\ last.gets[1].origin = "int1"

\* C9: condition of a built matcher is the value the condition converter
\* answered with for the condition passed to new, whatever was called since.
C9_ConditionIsConverted ==
  wrapper.state = "built" => rb_mongory_matcher_condition = hist.converted

\* C9: a matcher whose converter answered with a copy has served a match?
C9_ConvertedReached ==
  /\ wrapper.state = "built"
  /\ last.op = "match"
  /\ hist.converted # hist.cond
  /\ rb_mongory_matcher_condition = hist.converted

\* C9: condition of a built matcher is the condition passed to new.
C9_ConditionIsOriginal ==
  wrapper.state = "built" => rb_mongory_matcher_condition = hist.cond

\* C10: context of a built matcher is the context passed to new, nil when
\* false was passed, and a context object made by new when none was passed.
C10_ContextOrDefault ==
  wrapper.state = "built"
    => CASE hist.ctx = Qundef ->
              /\ rb_mongory_matcher_context \in DOMAIN heap \ DOMAIN UserHeap
              /\ heap[rb_mongory_matcher_context].type = "T_OBJECT"
         [] hist.ctx = Qfalse -> rb_mongory_matcher_context = Qnil
         [] OTHER -> rb_mongory_matcher_context = hist.ctx

\* C10: a matcher made without a context answers with the object new made
C10_DefaultContextReached ==
  /\ wrapper.state = "built"
  /\ hist.ctx = Qundef
  /\ rb_mongory_matcher_context \in DOMAIN heap \ DOMAIN UserHeap

\* C10: context of a built matcher is the context passed to new, and nil when
\* none was passed.
C10_ContextOrNil ==
  wrapper.state = "built"
    => rb_mongory_matcher_context = (IF hist.ctx = Qundef THEN Qnil ELSE hist.ctx)

\* C11: the destruction hook has freed the long pool, the scratch pool and
\* the attached trace pool, in this order and each once, and every pool the
\* matcher holds is freed.
C11_FreeOrder ==
  last.op = "free"
    => /\ last.frees = <<wrapper.pool, wrapper.scratch_pool>>
                         \o (IF wrapper.trace_pool # NoPool
                             THEN <<wrapper.trace_pool>> ELSE << >>)
       /\ \A i \in DOMAIN last.frees : pools[last.frees[i]].state = "freed"

\* C11: a matcher with a trace pool attached has been destroyed
C11_FreeWithTraceReached ==
  /\ last.op = "free"
  /\ wrapper.trace_pool # NoPool
  /\ Len(last.frees) = 3
  /\ pools[wrapper.trace_pool].state = "freed"

C13_TraceOneShot ==
  [][(last'.op = "trace" /\ npools' = npools + 1 /\ wrapper'.state = "built")
       => /\ wrapper'.trace_pool = wrapper.trace_pool
          /\ pools'[wrapper.pool] = pools[wrapper.pool]
          /\ pools'[wrapper.scratch_pool] = pools[wrapper.scratch_pool]
          /\ pools'[NextPool(World)].state = "freed"]_vars

\* C14: every key handle held in the string cache or in the symbol cache of
\* a built matcher has an entry in the mark list.
C14_CachedKeysInMarkList ==
  wrapper.state = "built" => KeyOrigins(wrapper) \subseteq rb_mongory_matcher_mark(wrapper)

\* C15: a call in which the data converter answered with a value that is
\* still of no known shape ends in a reported conversion failure, and no
\* value of that shape reaches the evaluator.
C15_SecondDefaultFails ==
  (last.op \in {"new", "match", "trace"}
     /\ \E h \in last.hooked : TYPE(heap, h) \in {"T_OBJECT", "T_CLASS"})
    => /\ last.res = "raise"
       /\ last.value.type # "UNSUPPORTED"

\* C16: a match call with a trace pool attached that reaches its end runs the
\* evaluator, prints the trace, resets the trace pool, enables tracing again on
\* that same pool and only then resets the scratch pool; the attached trace
\* pool after the call is the one these steps worked on.
C16_TracedMatchOrder ==
  (last.op = "match" /\ last.res \in {"true", "false"} /\ wrapper.trace_pool # NoPool) =>
    last.steps = << [do |-> "evaluate", pool |-> "null"],
                    [do |-> "print_trace", pool |-> wrapper.trace_pool],
                    [do |-> "reset", pool |-> wrapper.trace_pool],
                    [do |-> "enable_trace", pool |-> wrapper.trace_pool],
                    [do |-> "reset", pool |-> wrapper.scratch_pool] >>

C16_TracedMatchReached ==
  /\ last.op = "match" /\ last.res = "true"
  /\ wrapper.trace_pool # NoPool
  /\ Len(last.steps) = 5
  /\ pools[wrapper.trace_pool].state = "live"

\* C17: a match? call that compiled a string pattern is followed by a match?
\* call on the same data that reaches the evaluator; the later call compiles
\* nothing and gives the result of the first.
C17_CachedRegexSameResult ==
  [][(/\ last.op = "match" /\ last.compiled # {}
      /\ last'.op = "match" /\ last'.arg = last.arg /\ last'.steps # << >>)
       => /\ last'.compiled = {}
          /\ last'.res = last.res]_vars

\* C18: in a match? call, the origin of the data value and of every value a
\* get on a lazy view produced is an object that a marking pass reaches from
\* the data argument (or is no heap object at all).
C18_ScratchOriginsFromData ==
  last.op = "match" =>
    /\ IsNull(last.value) \/ last.value.origin \notin DOMAIN heap
         \/ last.value.origin \in HostReach(heap, {last.arg})
    /\ \A i \in DOMAIN last.gets :
         last.gets[i].origin \in DOMAIN heap
           => last.gets[i].origin \in HostReach(heap, {last.arg})
    /\ \A i \in DOMAIN last.agets :
         last.agets[i].origin \in DOMAIN heap
           => last.agets[i].origin \in HostReach(heap, {last.arg})

C20_NoNullTracePoolRead ==
  last.op \in {"disable_trace", "print_trace"} =>
    /\ last.res \in {"nil", "raise"}
    /\ wrapper.state = "built"

\* C21: after an enable_trace call that returns, every live pool that the call
\* created, and the trace pool that was attached before it, is the attached
\* trace pool: no pool is left that the free hook will not reach.
C21_EnableLeavesOneTracePool ==
  [][(last'.op = "enable_trace" /\ last'.res = "nil")
       => \A p \in DOMAIN pools' :
            (/\ pools'[p].state = "live"
             /\ p \notin DOMAIN pools \/ p = wrapper.trace_pool)
              => p = wrapper'.trace_pool]_vars

\* C22: the lazy view that a match? or trace call built for its data carries
\* the matcher as its owner.
C22_ViewOwnerIsMatcher ==
  (/\ last.op \in {"match", "trace"}
   /\ last.value.type \in {"TABLE", "ARRAY"})
    => last.value.data.owner = "self"

\* C23: at every call into the host that new makes, the host objects that the
\* wrapper and the mark list hold at that point are reached by a marking pass
\* from the caller's objects and the handles on the C stack.
C23_HeldDuringCreateReachable ==
  last.op = "new" =>
    \A i \in DOMAIN last.hostcalls :
      last.hostcalls[i].held \cap DOMAIN heap
        \subseteq HostReach(heap, DOMAIN UserHeap \cup last.hostcalls[i].stack)

\* C24: while the matcher is built, no call removes or changes an entry of the
\* mark list or of a key cache, and a match? call that follows a match? call
\* on the same data adds no entry to any of the three.
C24_MarkListAppendOnly ==
  [][wrapper.state = "built" =>
       /\ Len(wrapper'.mark_list) >= Len(wrapper.mark_list)
       /\ SubSeq(wrapper'.mark_list, 1, Len(wrapper.mark_list)) = wrapper.mark_list
       /\ \A k \in DOMAIN wrapper.string_map :
            k \in DOMAIN wrapper'.string_map
              /\ wrapper'.string_map[k] = wrapper.string_map[k]
       /\ \A k \in DOMAIN wrapper.symbol_map :
            k \in DOMAIN wrapper'.symbol_map
              /\ wrapper'.symbol_map[k] = wrapper.symbol_map[k]
       /\ (last.op = "match" /\ last'.op = "match" /\ last'.arg = last.arg)
            => /\ wrapper'.mark_list = wrapper.mark_list
               /\ wrapper'.string_map = wrapper.string_map
               /\ wrapper'.symbol_map = wrapper.symbol_map]_vars

\* C24: a match? on the empty hash found the symbol of the key "0" in the
\* cache, interned and pushed by an earlier call, and allocated nothing
C24_CachedKeyReusedReached ==
  /\ last.op = "match"
  /\ last.arg = "dEmpty"
  /\ last.made = {}
  /\ Len(last.gets) = 1
  /\ last.gets[1].key = "0"
  /\ "0" \in DOMAIN wrapper.symbol_map
  /\ wrapper.symbol_map["0"].origin \notin DOMAIN UserHeap
  /\ MarkRef(wrapper.symbol_map["0"]) = wrapper.mark_list[Len(wrapper.mark_list)]

====
